---- MODULE Spec2Model ----
(***************************************************************************)
(* Model of server/manager.py: the Sora data-channel manager.  It takes    *)
(* #ctrl commands, integrates a planar vehicle model, and publishes #state *)
(* frames; heartbeats and an emergency stop run beside it, and a           *)
(* connection loop keeps one Sora connection alive.                        *)
(*                                                                         *)
(* Numbers.  Python floats are modelled in fixed point: every real is an   *)
(* integer count of thousandths (1.0 is Scale = 1000), so seconds are      *)
(* milliseconds, m/s are mm/s and radians are milliradians.  The code's    *)
(* epsilon 1e-3 is therefore 1.  Products and quotients round toward zero. *)
(*                                                                         *)
(* Threads.  Each loop and each transport callback is a process; a step of *)
(* a process is one critical section (a "with lock" block) or one run of   *)
(* statements that touches shared state once.                              *)
(***************************************************************************)
EXTENDS Integers, Sequences, FiniteSets, TLC

----------------------------------------------------------------------------
(* Program constants, in thousandths. *)

Scale == 1000

CTRL_HOLD_SEC == 200
CTRL_DAMP_SEC == 1000
STATE_RATE_HZ == 30
PHYSICS_RATE_HZ == 60

MAX_SPEED == 20000
MAX_ACCEL == 9000
BRAKE_DECEL == 14000
COAST_DECEL == 2000
IDLE_DECEL == 1500
YAW_RATE_MAX == 2500
YAW_SLEW == 6000
ANGULAR_DAMP == 4000

\* abs_tol = 1e-3 and the 1e-3 thresholds of step
EPS == 1

\* math.pi and math.tau
PI == 3142
TAU == 6283

\* float("inf"): larger than every finite age, so order comparisons with it
\* come out as they do for the float
INF == 1000000000

\* the "ctrl stale" and "ui heartbeat lost" thresholds of _build_state_payload
STALE_SEC == 400
HB_LOST_SEC == 3000

\* (1 << 31) - 1, the largest state seq
SEQ_MAX == 2147483647

\* the wall clock time.time() reads this much ahead of perf_counter(), so a
\* wall timestamp is never 0 (falsy)
WALL_EPOCH == 5000

\* None for an Optional[float] field
NoTime == -1

\* float("nan"), which json.loads yields for the literal NaN: every order
\* comparison with it is false
NaN == 2000000001

\* a key the cmd object does not have: dict.get returns its default
Missing == 2000000002

\* a value float() raises on: a string that is not a number, null, a list
NonNumeric == 2000000003

----------------------------------------------------------------------------
(* Arithmetic helpers. *)

Abs(a) == IF a < 0 THEN -a ELSE a

Sign(a) == IF a < 0 THEN -1 ELSE 1

\* quotient rounded toward zero
TDiv(n, d) == IF n >= 0 THEN n \div d ELSE -((-n) \div d)

\* fixed-point product a*b
Mul(a, b) == TDiv(a * b, Scale)

Max(a, b) == IF a >= b THEN a ELSE b

ClampNoUpper(value, low, high) == IF value < low THEN low ELSE value

\* value < low, as the float comparison decides it
Lt(a, b) == a # NaN /\ b # NaN /\ a < b

clamp(value, low, high) ==
    IF Lt(value, low) THEN low ELSE IF Lt(high, value) THEN high ELSE value

RECURSIVE WrapDown(_)
WrapDown(rad) == IF rad > PI THEN WrapDown(rad - TAU) ELSE rad

RECURSIVE WrapUp(_)
WrapUp(rad) == IF rad <= -PI THEN WrapUp(rad + TAU) ELSE rad

wrap_angle(rad) == WrapUp(WrapDown(rad))

\* math.sin on [0, pi], Bhaskara's rational approximation, in thousandths
SinPos(a) ==
    LET p == TDiv(a * (PI - a), Scale)
    IN  TDiv(16 * Scale * p, TDiv(5 * PI * PI, Scale) - 4 * p)

\* math.sin on (-pi, pi]
Sin(a) == IF a >= 0 THEN SinPos(a) ELSE -SinPos(-a)

\* math.cos(a) = sin(a + pi/2)
Cos(a) == Sin(wrap_angle(a + (PI \div 2)))

----------------------------------------------------------------------------
(* Bounds of the model. *)

\* Advance steps of the clock in one run
MaxAdvance == 2

\* physics loop iterations in one run
MaxTicks == 2

\* largest seq a ctrl frame carries
MaxSeq == 1

\* state frames composed in one run
MaxFrames == 2

\* replayed ctrl frames counted between two stats resets
MaxDrops == 2

\* connections the connection loop creates in one run
MaxConns == 3

\* how far the clock moves in one Advance step, in ms: inside CTRL_HOLD_SEC
\* (two of them fall in the damping window), and past CTRL_HOLD_SEC +
\* CTRL_DAMP_SEC and the heartbeat-loss threshold
AdvanceSet == {150, 3100}

\* transport callback threads that may run at the same time
CbThreads == {1, 2}

----------------------------------------------------------------------------
(* Values. *)

\* None for Optional[ControlSnapshot]
None == [none |-> TRUE]

ctrl_label == "#ctrl"
state_label == "#state"

Labels == {ctrl_label, state_label}

\* the cmd objects inbound ctrl frames carry (raw, before clamping), with the
\* frame's optional client timestamp t in ms: forward and right with the
\* throttle over range, reverse and left with the steer over range, and a
\* brake over range
Cmds ==
    << [throttle |-> 1500, steer |-> 1000, brake |-> 0, mode |-> "arcade", t |-> NoTime],
       [throttle |-> -500, steer |-> -2000, brake |-> 0, mode |-> "tank", t |-> 4000],
       [throttle |-> 0, steer |-> 0, brake |-> 2000, mode |-> "arcade", t |-> NoTime] >>

\* the operator sends one cmd under each seq
CmdOf(s) == Cmds[((s + Len(Cmds)) % Len(Cmds)) + 1]

\* the seq values ctrl frames carry
Seqs == -1 .. MaxSeq

\* ctrl frames; int_seq is isinstance(seq, int): FALSE for a frame whose seq
\* is missing or is not an int; cmd_obj is FALSE for a frame whose cmd is a
\* value other than an object (a non-empty string, a number, a list)
CtrlMsgs ==
    { [type |-> "ctrl", int_seq |-> TRUE, seq |-> s, cmd_obj |-> TRUE, cmd |-> CmdOf(s)] :
          s \in Seqs }
        \cup {[type |-> "ctrl", int_seq |-> FALSE, seq |-> 0, cmd_obj |-> TRUE, cmd |-> CmdOf(0)]}

Msgs == CtrlMsgs \cup {[type |-> "hb"], [type |-> "estop"], [type |-> "other"]}

\* the object a transport callback thread is not running any callback
Idle == [kind |-> "idle"]

----------------------------------------------------------------------------
(* VehicleModel *)

VehicleInit ==
    [x |-> 0, y |-> 0, z |-> 0, yaw |-> 0, vx |-> 0, wz |-> 0,
     last_dt |-> Scale \div PHYSICS_RATE_HZ, last_ctrl_age |-> INF,
     estop_active |-> FALSE]

\* ControlSnapshot.age
age(ctrl, t) == t - ctrl.received_at

\* math.isclose(throttle, 0.0, abs_tol=1e-3)
IsCloseZero(a) == Abs(a) <= EPS

EffectiveNoClamp(ctrl, t) ==
    IF ctrl = None
    THEN [throttle |-> 0, steer |-> 0, brake |-> 0, age |-> INF]
    ELSE LET a == age(ctrl, t)
         IN  IF a <= CTRL_HOLD_SEC
             THEN [throttle |-> ctrl.throttle, steer |-> ctrl.steer,
                   brake |-> ctrl.brake, age |-> a]
             ELSE LET decay == TDiv((a - CTRL_HOLD_SEC) * Scale, CTRL_DAMP_SEC)
                  IN  [throttle |-> Mul(ctrl.throttle, Scale - decay),
                       steer |-> Mul(ctrl.steer, Scale - decay),
                       brake |-> Max(ctrl.brake, decay), age |-> a]

EffectiveKeepsBrake(ctrl, t) ==
    IF ctrl = None
    THEN [throttle |-> 0, steer |-> 0, brake |-> 0, age |-> INF]
    ELSE LET a == age(ctrl, t)
         IN  IF a <= CTRL_HOLD_SEC
             THEN [throttle |-> ctrl.throttle, steer |-> ctrl.steer,
                   brake |-> ctrl.brake, age |-> a]
             ELSE LET decay == clamp(TDiv((a - CTRL_HOLD_SEC) * Scale, CTRL_DAMP_SEC),
                                     0, Scale)
                  IN  [throttle |-> Mul(ctrl.throttle, Scale - decay),
                       steer |-> Mul(ctrl.steer, Scale - decay),
                       brake |-> ctrl.brake, age |-> a]

\* the effective command of a step: throttle, steer, brake and the age
\* recorded, before the estop override
Effective(ctrl, t) ==
    IF ctrl = None
    THEN [throttle |-> 0, steer |-> 0, brake |-> 0, age |-> INF]
    ELSE LET a == age(ctrl, t)
         IN  IF a <= CTRL_HOLD_SEC
             THEN [throttle |-> ctrl.throttle, steer |-> ctrl.steer,
                   brake |-> ctrl.brake, age |-> a]
             ELSE LET decay == clamp(TDiv((a - CTRL_HOLD_SEC) * Scale, CTRL_DAMP_SEC),
                                     0, Scale)
                  IN  [throttle |-> Mul(ctrl.throttle, Scale - decay),
                       steer |-> Mul(ctrl.steer, Scale - decay),
                       brake |-> Max(ctrl.brake, decay), age |-> a]

StepVxIdleAlways(v, has, throttle, brake, dt) ==
    LET moving == Abs(v.vx) > EPS
        accel0 == Mul(throttle, MAX_ACCEL)
        accel1 == IF IsCloseZero(throttle)
                  THEN (IF moving THEN accel0 - Sign(v.vx) * COAST_DECEL ELSE 0)
                  ELSE accel0
        accel2 == IF brake > 0 /\ moving
                  THEN accel1 - Sign(v.vx) * Mul(BRAKE_DECEL, brake)
                  ELSE accel1
        idle == ~has /\ ~v.estop_active
        accel3 == IF idle THEN accel2 - Sign(v.vx) * IDLE_DECEL ELSE accel2
        vx1 == v.vx + Mul(accel3, dt)
        vx2 == IF Abs(vx1) < EPS THEN 0 ELSE vx1
    IN  clamp(vx2, -MAX_SPEED, MAX_SPEED)

\* the longitudinal part of step: the new vx
StepVx(v, has, throttle, brake, dt) ==
    LET moving == Abs(v.vx) > EPS
        accel0 == Mul(throttle, MAX_ACCEL)
        accel1 == IF IsCloseZero(throttle)
                  THEN (IF moving THEN accel0 - Sign(v.vx) * COAST_DECEL ELSE 0)
                  ELSE accel0
        accel2 == IF brake > 0 /\ moving
                  THEN accel1 - Sign(v.vx) * Mul(BRAKE_DECEL, brake)
                  ELSE accel1
        idle == ~has /\ ~v.estop_active
        accel3 == IF idle /\ moving THEN accel2 - Sign(v.vx) * IDLE_DECEL ELSE accel2
        vx0 == IF idle /\ ~moving THEN 0 ELSE v.vx
        vx1 == vx0 + Mul(accel3, dt)
        vx2 == IF Abs(vx1) < EPS THEN 0 ELSE vx1
    IN  clamp(vx2, -MAX_SPEED, MAX_SPEED)

\* the rotational part of step: the new wz
StepWz(v, has, steer, dt) ==
    LET target_wz == Mul(steer, YAW_RATE_MAX)
        slew == Mul(YAW_SLEW, dt)
        wz1 == IF has
               THEN v.wz + clamp(target_wz - v.wz, -slew, slew)
               ELSE LET damping == clamp(Mul(ANGULAR_DAMP, dt), 0, Scale)
                    IN  Mul(v.wz, Scale - damping)
    IN  IF Abs(wz1) < EPS THEN 0 ELSE wz1

EstopOverrideNone(v, eff) == eff

\* the estop override of step: throttle = 0, brake = 1
EstopOverride(v, eff) ==
    IF v.estop_active THEN [eff EXCEPT !.throttle = 0, !.brake = Scale] ELSE eff

\* VehicleModel.step(ctrl, dt, now): the vehicle after the step
step(v, ctrl, dt, t) ==
    LET eff == EstopOverride(v, Effective(ctrl, t))
        has == ctrl # None
        vx == StepVx(v, has, eff.throttle, eff.brake, dt)
        wz == StepWz(v, has, eff.steer, dt)
        yaw_now == wrap_angle(v.yaw + Mul(wz, dt))
        heading_x == Sin(yaw_now)
        heading_z == Cos(yaw_now)
    IN  [x |-> v.x + Mul(Mul(vx, heading_x), dt),
         y |-> v.y,
         z |-> v.z + Mul(Mul(vx, heading_z), dt),
         yaw |-> yaw_now, vx |-> vx, wz |-> wz,
         last_dt |-> dt, last_ctrl_age |-> eff.age,
         estop_active |-> v.estop_active]

\* an estop that flips the flag instead of setting it
EstopToggles(v) == [v EXCEPT !.estop_active = ~v.estop_active, !.vx = 0, !.wz = 0]

\* VehicleModel.estop
estop(v) == [v EXCEPT !.estop_active = TRUE, !.vx = 0, !.wz = 0]

\* VehicleModel.clear_estop
clear_estop(v) == [v EXCEPT !.estop_active = FALSE]

\* a snapshot that takes the pose of the state and not its velocity
SnapshotTorn(v) ==
    [x |-> v.x, y |-> v.y, z |-> v.z, yaw |-> v.yaw, vx |-> 0, wz |-> 0,
     dt |-> v.last_dt, ctrl_age |-> v.last_ctrl_age, estop |-> v.estop_active]

\* VehicleModel.snapshot with ctrl_age and estop_active, as
\* _build_state_payload reads them in one critical section
snapshot(v) ==
    [x |-> v.x, y |-> v.y, z |-> v.z, yaw |-> v.yaw, vx |-> v.vx, wz |-> v.wz,
     dt |-> v.last_dt, ctrl_age |-> v.last_ctrl_age, estop |-> v.estop_active]

----------------------------------------------------------------------------
(* ManagerNode: the state. *)

VARIABLES
    now,                  \* the clock: time.perf_counter() in ms; time.time() is WALL_EPOCH + now
    advances,             \* Advance steps taken (bounds the run)
    \* the latest-command slot and the command statistics
    last_ctrl,            \* _last_ctrl: None or a ControlSnapshot
    last_ctrl_latency_ms, \* _last_ctrl_latency_ms: NoTime or wall ms - t
    has_latency,          \* whether _last_ctrl_latency_ms is not None
    ctrl_recv_count,      \* _ctrl_recv_count
    ctrl_drop_count,      \* _ctrl_drop_count
    state_sent_count,     \* _state_sent_count
    \* the integrator and the liveness flags
    vehicle,              \* _vehicle
    estop_triggered,      \* _estop_triggered, the sticky beacon
    last_hb_from_ui,      \* _last_hb_from_ui: NoTime or a wall time
    \* the physics loop
    physics_last,         \* the loop's local "last"
    ticks,                \* iterations run (bounds the run)
    \* the state loop
    state_seq,            \* _state_seq
    pc_state,             \* where the loop is: "idle", "compose", "send"
    snap,                 \* the snapshot _build_state_payload took
    payload,              \* the frame it composed
    frames,               \* frames composed (bounds the run)
    wire,                 \* the last frame handed to send_data_channel, with its connection
    \* transport callbacks and the process's own calls
    cb,                   \* per callback thread: the callback it is running
    pc_api,               \* the process's own calls: "idle", "beacon" (in trigger_estop),
                          \* "stop_lock", "stop_join" (in stop), "stopped"
    \* the session
    conn,                 \* _conn: 0 for None, or the connection's number
    created,              \* connections created so far
    link,                 \* per connection: "new", "open" (connect() called), "dropped"
                          \* (connect() called, the link failed or was closed by the
                          \* transport), "closed" (disconnect() called)
    connection_id,        \* _connection_id: 0 for None, or the id of the offer
    dc_ready,             \* _dc_ready
    stop_event, reconnect_event, disconnected_event, connected_event,
    connection_alive,
    pc_conn,              \* where the connection loop is
    \* the heartbeat loop and the stats loop
    pc_hb,                \* where the heartbeat loop is: "idle", "check", "send"
    hb_wire,              \* the connection the last heartbeat was handed to, 0 for none
    pc_stat,              \* where the stats loop is: "idle", "reset"
    stat_recv,            \* the loop's local "recv"
    stat_drop             \* the loop's local "drop"

ctrl_vars == <<last_ctrl, last_ctrl_latency_ms, has_latency, ctrl_recv_count, ctrl_drop_count>>

state_vars == <<state_seq, pc_state, snap, payload, frames, wire, state_sent_count>>

session_vars ==
    <<conn, created, link, connection_id, dc_ready, stop_event, reconnect_event,
      disconnected_event, connected_event, connection_alive, pc_conn>>

loop_vars == <<pc_hb, hb_wire, pc_stat, stat_recv, stat_drop>>

vars ==
    <<now, advances, last_ctrl, last_ctrl_latency_ms, has_latency, ctrl_recv_count,
      ctrl_drop_count, state_sent_count, vehicle, estop_triggered, last_hb_from_ui,
      physics_last, ticks, state_seq, pc_state, snap, payload, frames, wire, cb,
      pc_api, conn, created, link, connection_id, dc_ready, stop_event,
      reconnect_event, disconnected_event, connected_event, connection_alive,
      pc_conn, pc_hb, hb_wire, pc_stat, stat_recv, stat_drop>>

\* time.time(), in ms
wall == WALL_EPOCH + now

NoSnap == [none |-> TRUE]

NoPayload == [none |-> TRUE]

NoWire == [conn |-> 0, seq |-> 0]

----------------------------------------------------------------------------
(* The clock. *)

Advance(d) ==
    /\ advances < MaxAdvance
    /\ now' = now + d
    /\ advances' = advances + 1
    /\ UNCHANGED <<loop_vars, ctrl_vars, state_vars, session_vars, vehicle,
                   estop_triggered, last_hb_from_ui, physics_last, ticks, cb, pc_api>>

----------------------------------------------------------------------------
(* Transport callbacks: on_message.  The first step is the identity check  *)
(* under _conn_lock with the parsing and the handler's local reads; the    *)
(* handler's writes are the steps after it.                                *)

\* the ControlSnapshot _handle_ctrl builds from a frame, with the frame's t
\* cmd.get(key, 0.0)
Get(value) == IF value = Missing THEN 0 ELSE value

CtrlOfMsg(msg, t) ==
    [seq |-> msg.seq,
     throttle |-> clamp(Get(msg.cmd.throttle), -Scale, Scale),
     steer |-> clamp(Get(msg.cmd.steer), -Scale, Scale),
     brake |-> clamp(Get(msg.cmd.brake), 0, Scale),
     mode |-> msg.cmd.mode,
     received_at |-> t]

\* a connection the transport may still fire callbacks for
Fires(ref) == ref \in 1..created /\ link[ref] # "new"

\* whether _handle_ctrl raises before it reaches the lock: cmd.get on a cmd
\* that is not an object, float() on a value that is not a number
CmdRaises(msg) ==
    \/ ~msg.cmd_obj
    \/ NonNumeric \in {msg.cmd.throttle, msg.cmd.steer, msg.cmd.brake}

\* a dispatch that feeds ctrl frames to intake from every label
DispatchAnyLabel(label, msg) ==
    IF msg.type = "not_utf8" THEN "raise"
    ELSE IF msg.type = "not_json" THEN "drop"
    ELSE IF msg.type = "not_object" THEN "raise"
    ELSE IF msg.type = "ctrl"
    THEN IF ~msg.int_seq THEN "drop"
         ELSE IF CmdRaises(msg) THEN "raise"
         ELSE "ctrl"
    ELSE IF msg.type = "hb" THEN "hb"
    ELSE IF msg.type = "estop" THEN "estop"
    ELSE "drop"

\* where _on_message takes a frame of the active connection: data.decode
\* raises UnicodeDecodeError, which "except json.JSONDecodeError" does not
\* catch; text that is not JSON is dropped; payload.get raises on a JSON value
\* that is not an object; then the dispatch on type and label, with the part
\* of _handle_ctrl before the lock
Dispatch(label, msg) ==
    IF msg.type = "not_utf8" THEN "raise"
    ELSE IF msg.type = "not_json" THEN "drop"
    ELSE IF msg.type = "not_object" THEN "raise"
    ELSE IF msg.type = "ctrl" /\ label = ctrl_label
    THEN IF ~msg.int_seq THEN "drop"
         ELSE IF CmdRaises(msg) THEN "raise"
         ELSE "ctrl"
    ELSE IF msg.type = "hb" THEN "hb"
    ELSE IF msg.type = "estop" THEN "estop"
    ELSE "drop"

\* _on_message up to the handler's first write
OnMessage(t, ref, label, msg) ==
    /\ cb[t] = Idle
    /\ Fires(ref)
    /\ IF ref # conn
       THEN UNCHANGED cb
       ELSE LET to == Dispatch(label, msg)
            IN  IF to = "ctrl"
                THEN cb' = [cb EXCEPT ![t] =
                              [kind |-> "ctrl", ref |-> ref,
                               snapshot |-> CtrlOfMsg(msg, now), t |-> msg.cmd.t]]
                ELSE IF to = "drop"
                THEN UNCHANGED cb
                ELSE cb' = [cb EXCEPT ![t] = [kind |-> to, ref |-> ref]]
    /\ UNCHANGED <<now, advances, loop_vars, ctrl_vars, state_vars, session_vars, vehicle,
                   estop_triggered, last_hb_from_ui, physics_last, ticks, pc_api>>

\* the exception leaves _on_message: the callback is over, in the hands of
\* the transport that called it
CallbackRaised(t) ==
    /\ cb[t].kind = "raise"
    /\ cb' = [cb EXCEPT ![t] = Idle]
    /\ UNCHANGED <<now, advances, loop_vars, ctrl_vars, state_vars, session_vars, vehicle,
                   estop_triggered, last_hb_from_ui, physics_last, ticks, pc_api>>

\* whether _handle_ctrl drops a frame as a replay
IsReplayAcceptEqual(slot, seq) == slot # None /\ seq < slot.seq

IsReplay(slot, seq) == slot # None /\ seq <= slot.seq

\* the slot a replay leaves
ReplayRefreshes(slot, c) == [slot EXCEPT !.received_at = c.received_at]

ReplaySlot(slot, c) == slot

\* _handle_ctrl: the critical section under _ctrl_lock
HandleCtrl(t) ==
    /\ cb[t].kind = "ctrl"
    /\ LET c == cb[t].snapshot
       IN  IF IsReplay(last_ctrl, c.seq)
           THEN /\ ctrl_drop_count < MaxDrops
                /\ ctrl_drop_count' = ctrl_drop_count + 1
                /\ last_ctrl' = ReplaySlot(last_ctrl, c)
                /\ UNCHANGED <<last_ctrl_latency_ms, has_latency, ctrl_recv_count>>
           ELSE /\ last_ctrl' = c
                /\ ctrl_recv_count' = ctrl_recv_count + 1
                /\ IF cb[t].t # NoTime
                   THEN /\ last_ctrl_latency_ms' = wall - cb[t].t
                        /\ has_latency' = TRUE
                   ELSE UNCHANGED <<last_ctrl_latency_ms, has_latency>>
                /\ UNCHANGED ctrl_drop_count
    /\ cb' = [cb EXCEPT ![t] = Idle]
    /\ UNCHANGED <<now, advances, loop_vars, state_vars, session_vars, vehicle, estop_triggered,
                   last_hb_from_ui, physics_last, ticks, pc_api>>

\* _handle_heartbeat
HandleHeartbeat(t) ==
    /\ cb[t].kind = "hb"
    /\ last_hb_from_ui' = wall
    /\ cb' = [cb EXCEPT ![t] = Idle]
    /\ UNCHANGED <<now, advances, loop_vars, ctrl_vars, state_vars, session_vars, vehicle,
                   estop_triggered, physics_last, ticks, pc_api>>

\* _handle_estop: the critical section under _vehicle_lock
HandleEstop(t) ==
    /\ cb[t].kind = "estop"
    /\ vehicle' = estop(vehicle)
    /\ cb' = [cb EXCEPT ![t] = [kind |-> "estop_beacon", ref |-> cb[t].ref]]
    /\ UNCHANGED <<now, advances, loop_vars, ctrl_vars, state_vars, session_vars, estop_triggered,
                   last_hb_from_ui, physics_last, ticks, pc_api>>

\* _handle_estop: the beacon, set after the lock is released
HandleEstopBeacon(t) ==
    /\ cb[t].kind = "estop_beacon"
    /\ estop_triggered' = TRUE
    /\ cb' = [cb EXCEPT ![t] = Idle]
    /\ UNCHANGED <<now, advances, loop_vars, ctrl_vars, state_vars, session_vars, vehicle,
                   last_hb_from_ui, physics_last, ticks, pc_api>>

----------------------------------------------------------------------------
(* The process's own calls. *)

\* trigger_estop: the critical section under _vehicle_lock
TriggerEstop ==
    /\ pc_api = "idle"
    /\ vehicle' = estop(vehicle)
    /\ pc_api' = "beacon"
    /\ UNCHANGED <<now, advances, loop_vars, ctrl_vars, state_vars, session_vars, estop_triggered,
                   last_hb_from_ui, physics_last, ticks, cb>>

\* trigger_estop: the beacon
TriggerEstopBeacon ==
    /\ pc_api = "beacon"
    /\ estop_triggered' = TRUE
    /\ pc_api' = "idle"
    /\ UNCHANGED <<now, advances, loop_vars, ctrl_vars, state_vars, session_vars, vehicle,
                   last_hb_from_ui, physics_last, ticks, cb>>

\* a clear_estop that resets the beacon as well
ClearEstopAlsoBeacon ==
    /\ vehicle.estop_active
    /\ vehicle' = clear_estop(vehicle)
    /\ estop_triggered' = FALSE
    /\ UNCHANGED <<now, advances, loop_vars, ctrl_vars, state_vars, session_vars,
                   last_hb_from_ui, physics_last, ticks, cb, pc_api>>

\* VehicleModel.clear_estop, called on the integrator
ClearEstop ==
    /\ vehicle.estop_active
    /\ vehicle' = clear_estop(vehicle)
    /\ UNCHANGED <<now, advances, loop_vars, ctrl_vars, state_vars, session_vars, estop_triggered,
                   last_hb_from_ui, physics_last, ticks, cb, pc_api>>

----------------------------------------------------------------------------
(* The physics loop. *)

target_dt == Scale \div PHYSICS_RATE_HZ

\* the dt of an iteration
LoopDt(t, last) == IF t - last <= 0 THEN target_dt ELSE t - last

\* one iteration of _physics_loop: the slot read under _ctrl_lock, then the
\* step under _vehicle_lock
PhysicsLoop ==
    /\ ~stop_event
    /\ ticks < MaxTicks
    /\ vehicle' = step(vehicle, last_ctrl, LoopDt(now, physics_last), now)
    /\ physics_last' = now
    /\ ticks' = ticks + 1
    /\ UNCHANGED <<now, advances, loop_vars, ctrl_vars, state_vars, session_vars, estop_triggered,
                   last_hb_from_ui, cb, pc_api>>

----------------------------------------------------------------------------
(* The state loop. *)

\* the status policy of _build_state_payload: ok and msg from the snapshot's
\* estop flag and ctrl_age and the operator heartbeat (the ms count of the
\* "ctrl timeout" and "ctrl stale" messages is left out of msg)
StatusCtrl(estop_flag, ctrl_age) ==
    IF estop_flag THEN [ok |-> FALSE, msg |-> "estop"]
    ELSE IF ctrl_age = INF THEN [ok |-> FALSE, msg |-> "waiting ctrl"]
    ELSE IF ctrl_age > CTRL_HOLD_SEC + CTRL_DAMP_SEC THEN [ok |-> FALSE, msg |-> "ctrl timeout"]
    ELSE IF ctrl_age > STALE_SEC THEN [ok |-> TRUE, msg |-> "ctrl stale"]
    ELSE [ok |-> TRUE, msg |-> ""]

\* a heartbeat rule with a threshold of 10 s
HbLostAfterTen(hb, w) == hb # NoTime /\ hb # 0 /\ w - hb > 10 * Scale

\* whether the heartbeat rule fires: "if self._last_hb_from_ui:" and hb_age > 3.0
HbLost(hb, w) == hb # NoTime /\ hb # 0 /\ w - hb > HB_LOST_SEC

StatusOf(estop_flag, ctrl_age, hb, w) ==
    IF HbLost(hb, w)
    THEN [ok |-> FALSE, msg |-> "ui heartbeat lost"]
    ELSE StatusCtrl(estop_flag, ctrl_age)

SeqModOffByOne(s) == IF s >= SEQ_MAX - 1 THEN 0 ELSE s + 1

\* _next_state_seq: (seq + 1) % (1 << 31)
next_state_seq(s) == IF s = SEQ_MAX THEN 0 ELSE s + 1

\* _state_loop: the ready check, then the snapshot _build_state_payload takes
\* under _vehicle_lock
StateBegin ==
    /\ pc_state = "idle"
    /\ ~stop_event
    /\ frames < MaxFrames
    /\ IF connection_alive /\ dc_ready[state_label]
       THEN /\ snap' = snapshot(vehicle)
            /\ pc_state' = "compose"
       ELSE UNCHANGED <<snap, pc_state>>
    /\ UNCHANGED <<now, advances, loop_vars, ctrl_vars, session_vars, vehicle, estop_triggered,
                   last_hb_from_ui, physics_last, ticks, cb, pc_api, state_seq,
                   payload, frames, wire, state_sent_count>>

\* _build_state_payload after the snapshot: the status, the seq, the frame
StateCompose ==
    /\ pc_state = "compose"
    /\ LET st == StatusOf(snap.estop, snap.ctrl_age, last_hb_from_ui, wall)
       IN  /\ state_seq' = next_state_seq(state_seq)
           /\ payload' = [seq |-> state_seq', x |-> snap.x, z |-> snap.z,
                          yaw |-> snap.yaw, vx |-> snap.vx, wz |-> snap.wz,
                          ok |-> st.ok, msg |-> st.msg, estop |-> estop_triggered]
    /\ frames' = frames + 1
    /\ pc_state' = "send"
    /\ UNCHANGED <<now, advances, loop_vars, ctrl_vars, session_vars, vehicle, estop_triggered,
                   last_hb_from_ui, physics_last, ticks, cb, pc_api, snap, wire,
                   state_sent_count>>

\* _send_state: the connection read under _conn_lock, then send_data_channel,
\* which raises on a connection that is not open
StateSend ==
    /\ pc_state = "send"
    /\ IF conn = 0
       THEN UNCHANGED <<wire, state_sent_count>>
       ELSE /\ wire' = [conn |-> conn, seq |-> payload.seq]
            /\ state_sent_count' =
                   IF link[conn] = "open" THEN state_sent_count + 1 ELSE state_sent_count
    /\ pc_state' = "idle"
    /\ snap' = NoSnap
    /\ payload' = NoPayload
    /\ UNCHANGED <<now, advances, loop_vars, ctrl_vars, session_vars, vehicle, estop_triggered,
                   last_hb_from_ui, physics_last, ticks, cb, pc_api, state_seq, frames>>

----------------------------------------------------------------------------
(* The data plane: command intake, the integrator, estop, the operator     *)
(* heartbeat and the state frames, over a session that is up.              *)

\* the state of a run (one SpecSession reaches from InitSession) once the
\* second connection is up: the first has been dropped and is stale, no
\* frame has come in or gone out yet
Init ==
    /\ now = 0
    /\ advances = 0
    /\ last_ctrl = None
    /\ last_ctrl_latency_ms = 0
    /\ has_latency = FALSE
    /\ ctrl_recv_count = 0
    /\ ctrl_drop_count = 0
    /\ state_sent_count = 0
    /\ vehicle = VehicleInit
    /\ estop_triggered = FALSE
    /\ last_hb_from_ui = NoTime
    /\ physics_last = 0
    /\ ticks = 0
    /\ state_seq = 0
    /\ pc_state = "idle"
    /\ snap = NoSnap
    /\ payload = NoPayload
    /\ frames = 0
    /\ wire = NoWire
    /\ cb = [t \in CbThreads |-> Idle]
    /\ pc_api = "idle"
    /\ conn = 2
    /\ created = 2
    /\ link = [c \in 1..MaxConns |-> IF c = 1 THEN "closed" ELSE IF c = 2 THEN "open" ELSE "new"]
    /\ connection_id = 2
    /\ dc_ready = [l \in Labels |-> TRUE]
    /\ stop_event = FALSE
    /\ reconnect_event = FALSE
    /\ disconnected_event = FALSE
    /\ connected_event = TRUE
    /\ connection_alive = TRUE
    /\ pc_conn = "wait_disconnected"
    /\ pc_hb = "idle"
    /\ hb_wire = 0
    /\ pc_stat = "idle"
    /\ stat_recv = 0
    /\ stat_drop = 0

\* ctrl frames with a seq the slot has not reached: in this specification
\* the operator does not replay (SpecIntake is where it does)
FreshFrames ==
    { m \in CtrlMsgs : m.int_seq /\ m.seq >= 0 /\ (last_ctrl = None \/ m.seq > last_ctrl.seq) }

\* The integrator: command intake on one callback thread, the physics loop,
\* estop from the process, the clock.
Next ==
    \/ \E d \in AdvanceSet : Advance(d)
    \/ \E ref \in 1..MaxConns, label \in Labels, msg \in FreshFrames :
           OnMessage(1, ref, label, msg)
    \/ HandleCtrl(1)
    \/ TriggerEstop
    \/ TriggerEstopBeacon
    \/ ClearEstop
    \/ PhysicsLoop

Spec == Init /\ [][Next]_vars

----------------------------------------------------------------------------
(* Claims on the integrator, checked under Spec. *)

\* a step of the physics loop
IsPhysicsStep == ticks' = ticks + 1

\* C2: whenever the integrator's estop flag is active, vx = 0 and wz = 0,
\* whatever command is in the latest-command slot.
C2_EstopMeansStopped ==
    vehicle.estop_active => vehicle.vx = 0 /\ vehicle.wz = 0

C9_NoCtrlAtRest ==
    last_ctrl = None =>
        /\ vehicle.vx = 0
        /\ vehicle.wz = 0
        /\ vehicle.x = 0
        /\ vehicle.y = 0
        /\ vehicle.z = 0
        /\ vehicle.yaw = 0

\* No command accepted, yet the loop has ticked twice, the last time over a
\* measured dt, and estop has been triggered and cleared again.
C9_Witness ==
    /\ last_ctrl = None
    /\ ticks >= 2
    /\ vehicle.last_dt > target_dt
    /\ estop_triggered
    /\ ~vehicle.estop_active

\* a physics step that reads a command older than CTRL_HOLD + CTRL_DAMP
IsStaleStep ==
    /\ IsPhysicsStep
    /\ last_ctrl # None
    /\ age(last_ctrl, now) > CTRL_HOLD_SEC + CTRL_DAMP_SEC

\* a command with throttle 0, steer 0 and brake 1 received at t
FullBrake(t) ==
    [seq |-> 0, throttle |-> 0, steer |-> 0, brake |-> Scale, mode |-> "arcade",
     received_at |-> t]

----------------------------------------------------------------------------
(* Command intake: the transport delivers any ctrl frame, replays          *)
(* included, on two callback threads that interleave at every lock.        *)

\* what the transport delivers here: every ctrl frame, and frames of a type
\* the node ignores
IntakeMsgs == { m \in Msgs : m.type \in {"ctrl", "other"} }

NextIntake ==
    \/ \E d \in AdvanceSet : Advance(d)
    \/ \E t \in CbThreads, ref \in 1..MaxConns, label \in Labels, msg \in IntakeMsgs :
           OnMessage(t, ref, label, msg)
    \/ \E t \in CbThreads : HandleCtrl(t)

SpecIntake == Init /\ [][NextIntake]_vars

\* callback thread t leaves the critical section of _handle_ctrl
CtrlCommits(t) == cb[t].kind = "ctrl" /\ cb'[t] = Idle

\* C1: the seq of the latest-command slot only ever grows: a command is
\* accepted only over an empty slot or a smaller seq, also when callbacks
\* overlap, and a frame whose seq is <= the slot's is dropped and counted in
\* ctrl_drop_count.
C1_SeqStrictlyIncreasing ==
    [][/\ (last_ctrl # None /\ last_ctrl' # last_ctrl)
              => (last_ctrl' # None /\ last_ctrl'.seq > last_ctrl.seq)
       /\ \A t \in CbThreads :
              (CtrlCommits(t) /\ last_ctrl # None /\ cb[t].snapshot.seq <= last_ctrl.seq)
                  => /\ ctrl_drop_count' = ctrl_drop_count + 1
                     /\ ctrl_recv_count' = ctrl_recv_count
                     /\ last_ctrl'.seq = last_ctrl.seq]_vars

\* Two commands were accepted and a frame was dropped while the other
\* callback thread holds a frame it took off the wire before the slot's
\* command arrived: the callbacks overlap.
C1_Witness ==
    /\ ctrl_recv_count >= 2
    /\ ctrl_drop_count >= 1
    /\ last_ctrl # None
    /\ \E t \in CbThreads :
           /\ cb[t].kind = "ctrl"
           /\ cb[t].snapshot.received_at < last_ctrl.received_at

\* C8: a replayed frame (seq <= the slot's) leaves the slot's seq, throttle,
\* steer, brake, mode and received_at, the recorded latency and the
\* received-command count as they were.
C8_ReplayLeavesSlot ==
    [][\A t \in CbThreads :
           (CtrlCommits(t) /\ last_ctrl # None /\ cb[t].snapshot.seq <= last_ctrl.seq)
               => /\ last_ctrl' = last_ctrl
                  /\ last_ctrl_latency_ms' = last_ctrl_latency_ms
                  /\ has_latency' = has_latency
                  /\ ctrl_recv_count' = ctrl_recv_count]_vars

\* Replays were dropped after the clock moved on from the accepted command,
\* which recorded a latency.
C8_Witness ==
    /\ ctrl_drop_count = MaxDrops
    /\ last_ctrl # None
    /\ last_ctrl.seq = MaxSeq
    /\ has_latency
    /\ last_ctrl.received_at < now
    /\ \A t \in CbThreads : cb[t] = Idle

----------------------------------------------------------------------------
(* The state publisher against the handlers: the operator's commands,      *)
(* heartbeats and estop frames arrive on a callback thread while the       *)
(* physics loop ticks and the state loop composes frames.                  *)

\* what the operator sends here: commands in seq order, heartbeats, estop
StatusMsgs == FreshFrames \cup {[type |-> "hb"], [type |-> "estop"]}

NextStatus ==
    \/ \E d \in AdvanceSet : Advance(d)
    \/ \E label \in Labels, msg \in StatusMsgs : OnMessage(1, conn, label, msg)
    \/ HandleCtrl(1)
    \/ HandleHeartbeat(1)
    \/ HandleEstop(1)
    \/ HandleEstopBeacon(1)
    \/ PhysicsLoop
    \/ StateBegin
    \/ StateCompose
    \/ StateSend

SpecStatus == Init /\ [][NextStatus]_vars

\* a frame has been composed from a snapshot that had the integrator's estop
\* flag set, and estop has not been cleared since
ComposedUnderEstop ==
    pc_state = "send" /\ snap.estop /\ vehicle.estop_active

\* C4: every state frame composed while the integrator's estop flag is
\* active carries status.estop == true, for every interleaving of the estop
\* handler with the state publisher.
C4_EstopFrameCarriesBeacon ==
    ComposedUnderEstop => payload.estop

\* C5: a state frame composed while estop is active has status.ok == false
\* and status.msg == "estop", whatever the command age and heartbeat age.
C5_EstopFrameStatus ==
    ComposedUnderEstop => (payload.ok = FALSE /\ payload.msg = "estop")

----------------------------------------------------------------------------
(* The session: the connection loop and the transport's session callbacks. *)
(* The loop's local conn is the connection created last.                   *)

\* _connection_loop from the top of the while to reconnect_event.clear():
\* the wait returns and the stop check after it finds stop_event clear
ConnWake ==
    /\ pc_conn = "top"
    /\ ~stop_event
    /\ reconnect_event
    /\ created < MaxConns
    /\ reconnect_event' = FALSE
    /\ pc_conn' = "install"
    /\ UNCHANGED <<now, advances, loop_vars, ctrl_vars, state_vars, vehicle, estop_triggered,
                   last_hb_from_ui, physics_last, ticks, cb, pc_api, conn, created, link,
                   connection_id, dc_ready, stop_event, disconnected_event,
                   connected_event, connection_alive>>

\* the loop finds stop_event set, at the while or after the wait, and exits
ConnExit ==
    /\ pc_conn = "top"
    /\ stop_event
    /\ pc_conn' = "done"
    /\ UNCHANGED <<now, advances, loop_vars, ctrl_vars, state_vars, vehicle, estop_triggered,
                   last_hb_from_ui, physics_last, ticks, cb, pc_api, conn, created, link,
                   connection_id, dc_ready, stop_event, reconnect_event,
                   disconnected_event, connected_event, connection_alive>>

\* _create_connection() and the critical section under _conn_lock that
\* installs the new connection and resets the session
ConnInstall ==
    /\ pc_conn = "install"
    /\ created' = created + 1
    /\ conn' = created + 1
    /\ dc_ready' = [l \in Labels |-> FALSE]
    /\ connection_id' = 0
    /\ connected_event' = FALSE
    /\ connection_alive' = FALSE
    /\ disconnected_event' = FALSE
    /\ pc_conn' = "connect"
    /\ UNCHANGED <<now, advances, loop_vars, ctrl_vars, state_vars, vehicle, estop_triggered,
                   last_hb_from_ui, physics_last, ticks, cb, pc_api, link, stop_event,
                   reconnect_event>>

\* conn.connect(): it opens the link, or raises and the loop goes to its
\* finally block
ConnConnect ==
    /\ pc_conn = "connect"
    /\ \/ /\ link' = [link EXCEPT ![created] = "open"]
          /\ pc_conn' = "wait_connected"
       \/ /\ link' = [link EXCEPT ![created] = "dropped"]
          /\ pc_conn' = "finally"
    /\ UNCHANGED <<now, advances, loop_vars, ctrl_vars, state_vars, vehicle, estop_triggered,
                   last_hb_from_ui, physics_last, ticks, cb, pc_api, conn, created,
                   connection_id, dc_ready, stop_event, reconnect_event,
                   disconnected_event, connected_event, connection_alive>>

\* _connected_event.wait(timeout=10.0) returns True
ConnConnected ==
    /\ pc_conn = "wait_connected"
    /\ connected_event
    /\ pc_conn' = "set_alive"
    /\ UNCHANGED <<now, advances, loop_vars, ctrl_vars, state_vars, vehicle, estop_triggered,
                   last_hb_from_ui, physics_last, ticks, cb, pc_api, conn, created, link,
                   connection_id, dc_ready, stop_event, reconnect_event,
                   disconnected_event, connected_event, connection_alive>>

\* the wait times out: conn.disconnect(), reconnect_event.set(), continue
\* (through the finally block)
ConnTimeout ==
    /\ pc_conn = "wait_connected"
    /\ ~connected_event
    /\ link' = [link EXCEPT ![created] = "closed"]
    /\ reconnect_event' = TRUE
    /\ pc_conn' = "finally"
    /\ UNCHANGED <<now, advances, loop_vars, ctrl_vars, state_vars, vehicle, estop_triggered,
                   last_hb_from_ui, physics_last, ticks, cb, pc_api, conn, created,
                   connection_id, dc_ready, stop_event, disconnected_event,
                   connected_event, connection_alive>>

\* _connection_alive.set()
ConnSetAlive ==
    /\ pc_conn = "set_alive"
    /\ connection_alive' = TRUE
    /\ pc_conn' = "wait_disconnected"
    /\ UNCHANGED <<now, advances, loop_vars, ctrl_vars, state_vars, vehicle, estop_triggered,
                   last_hb_from_ui, physics_last, ticks, cb, pc_api, conn, created, link,
                   connection_id, dc_ready, stop_event, reconnect_event,
                   disconnected_event, connected_event>>

\* _disconnected_event.wait() returns
ConnDisconnected ==
    /\ pc_conn = "wait_disconnected"
    /\ disconnected_event
    /\ pc_conn' = "finally"
    /\ UNCHANGED <<now, advances, loop_vars, ctrl_vars, state_vars, vehicle, estop_triggered,
                   last_hb_from_ui, physics_last, ticks, cb, pc_api, conn, created, link,
                   connection_id, dc_ready, stop_event, reconnect_event,
                   disconnected_event, connected_event, connection_alive>>

\* a finally block that forgets the connection without disconnecting it
ConnFinallyNoDisconnect ==
    /\ pc_conn = "finally"
    /\ conn' = 0
    /\ pc_conn' = "finally_rest"
    /\ UNCHANGED <<now, advances, loop_vars, ctrl_vars, state_vars, vehicle, estop_triggered,
                   last_hb_from_ui, physics_last, ticks, cb, pc_api, created, link,
                   connection_id, dc_ready, stop_event, reconnect_event,
                   disconnected_event, connected_event, connection_alive>>

\* the finally block: the critical section under _conn_lock
ConnFinally ==
    /\ pc_conn = "finally"
    /\ IF conn # 0
       THEN /\ link' = [link EXCEPT ![conn] = "closed"]
            /\ conn' = 0
       ELSE UNCHANGED <<link, conn>>
    /\ pc_conn' = "finally_rest"
    /\ UNCHANGED <<now, advances, loop_vars, ctrl_vars, state_vars, vehicle, estop_triggered,
                   last_hb_from_ui, physics_last, ticks, cb, pc_api, created,
                   connection_id, dc_ready, stop_event, reconnect_event,
                   disconnected_event, connected_event, connection_alive>>

ConnFinallyRestNoReconnect ==
    /\ pc_conn = "finally_rest"
    /\ connection_alive' = FALSE
    /\ pc_conn' = "top"
    /\ UNCHANGED <<now, advances, loop_vars, ctrl_vars, state_vars, vehicle, estop_triggered,
                   last_hb_from_ui, physics_last, ticks, cb, pc_api, conn, created, link,
                   connection_id, dc_ready, stop_event, reconnect_event,
                   disconnected_event, connected_event>>

\* the finally block after the lock: _connection_alive.clear() and, unless
\* stopping, reconnect_event.set(); then the top of the while
ConnFinallyRest ==
    /\ pc_conn = "finally_rest"
    /\ connection_alive' = FALSE
    /\ reconnect_event' = IF stop_event THEN reconnect_event ELSE TRUE
    /\ pc_conn' = "top"
    /\ UNCHANGED <<now, advances, loop_vars, ctrl_vars, state_vars, vehicle, estop_triggered,
                   last_hb_from_ui, physics_last, ticks, cb, pc_api, conn, created, link,
                   connection_id, dc_ready, stop_event, disconnected_event,
                   connected_event>>

\* the connection_id of a client other than this node
OtherId == MaxConns + 1

\* signaling frames about connection ref: its offer, a frame of another
\* type, and connection.created notifications for it and for another client
OfferMsgs(ref) == {[type |-> "offer", connection_id |-> ref], [type |-> "other"]}

NotifyMsgs(ref) ==
    { [type |-> "notify", event_type |-> "connection.created", connection_id |-> i] :
          i \in {ref, OtherId} }

\* the frames of a callback that returns after the identity check: the
\* callback thread stays idle
SessionFrame ==
    UNCHANGED <<now, advances, loop_vars, ctrl_vars, state_vars, vehicle, estop_triggered,
                last_hb_from_ui, physics_last, ticks, pc_api, conn, created,
                connection_id, dc_ready, stop_event, reconnect_event,
                disconnected_event, connected_event, connection_alive, pc_conn>>

\* _on_set_offer: the identity check under _conn_lock and the parse
OnSetOffer(t, ref, msg) ==
    /\ cb[t] = Idle
    /\ Fires(ref)
    /\ cb' = IF ref = conn /\ msg.type = "offer"
             THEN [cb EXCEPT ![t] = [kind |-> "offer", ref |-> ref, id |-> msg.connection_id]]
             ELSE cb
    /\ UNCHANGED link
    /\ SessionFrame

\* _on_set_offer: the write of _connection_id
SetOffer(t) ==
    /\ cb[t].kind = "offer"
    /\ connection_id' = cb[t].id
    /\ cb' = [cb EXCEPT ![t] = Idle]
    /\ UNCHANGED <<now, advances, loop_vars, ctrl_vars, state_vars, vehicle, estop_triggered,
                   last_hb_from_ui, physics_last, ticks, pc_api, conn, created, link,
                   dc_ready, stop_event, reconnect_event, disconnected_event,
                   connected_event, connection_alive, pc_conn>>

\* _on_notify: the identity check under _conn_lock and the parse
OnNotify(t, ref, msg) ==
    /\ cb[t] = Idle
    /\ Fires(ref)
    /\ cb' = IF ref = conn /\ msg.type = "notify" /\ msg.event_type = "connection.created"
             THEN [cb EXCEPT ![t] = [kind |-> "notify", ref |-> ref, id |-> msg.connection_id]]
             ELSE cb
    /\ UNCHANGED link
    /\ SessionFrame

\* _on_notify: the comparison with _connection_id and connected_event.set()
Notify(t) ==
    /\ cb[t].kind = "notify"
    /\ connected_event' = IF cb[t].id = connection_id THEN TRUE ELSE connected_event
    /\ cb' = [cb EXCEPT ![t] = Idle]
    /\ UNCHANGED <<now, advances, loop_vars, ctrl_vars, state_vars, vehicle, estop_triggered,
                   last_hb_from_ui, physics_last, ticks, pc_api, conn, created, link,
                   connection_id, dc_ready, stop_event, reconnect_event,
                   disconnected_event, connection_alive, pc_conn>>

\* _on_data_channel: the identity check under _conn_lock
OnDataChannel(t, ref, label) ==
    /\ cb[t] = Idle
    /\ Fires(ref)
    /\ cb' = IF ref = conn /\ label \in DOMAIN dc_ready
             THEN [cb EXCEPT ![t] = [kind |-> "dc", ref |-> ref, label |-> label]]
             ELSE cb
    /\ UNCHANGED link
    /\ SessionFrame

\* _on_data_channel: the write of _dc_ready
DataChannel(t) ==
    /\ cb[t].kind = "dc"
    /\ dc_ready' = [dc_ready EXCEPT ![cb[t].label] = TRUE]
    /\ cb' = [cb EXCEPT ![t] = Idle]
    /\ UNCHANGED <<now, advances, loop_vars, ctrl_vars, state_vars, vehicle, estop_triggered,
                   last_hb_from_ui, physics_last, ticks, pc_api, conn, created, link,
                   connection_id, stop_event, reconnect_event, disconnected_event,
                   connected_event, connection_alive, pc_conn>>

\* _on_disconnect: the transport has closed the link; the identity check
\* under _conn_lock
OnDisconnect(t, ref) ==
    /\ cb[t] = Idle
    /\ Fires(ref)
    /\ link' = [link EXCEPT ![ref] = IF link[ref] = "open" THEN "dropped" ELSE link[ref]]
    /\ cb' = IF ref = conn
             THEN [cb EXCEPT ![t] = [kind |-> "disconnect", ref |-> ref]]
             ELSE cb
    /\ SessionFrame

\* _on_disconnect: _connection_alive.clear() and _disconnected_event.set()
Disconnect(t) ==
    /\ cb[t].kind = "disconnect"
    /\ connection_alive' = FALSE
    /\ disconnected_event' = TRUE
    /\ cb' = [cb EXCEPT ![t] = Idle]
    /\ UNCHANGED <<now, advances, loop_vars, ctrl_vars, state_vars, vehicle, estop_triggered,
                   last_hb_from_ui, physics_last, ticks, pc_api, conn, created, link,
                   connection_id, dc_ready, stop_event, reconnect_event,
                   connected_event, pc_conn>>

\* the values _state_seq starts a run of the model from: 0, as constructed,
\* and two frames before the counter wraps
StartSeqs == {0, SEQ_MAX - 1}

\* the state after construction and start(): no connection yet, the
\* connection loop at the top of its while with reconnect_event set
InitSession ==
    /\ now = 0
    /\ advances = 0
    /\ last_ctrl = None
    /\ last_ctrl_latency_ms = 0
    /\ has_latency = FALSE
    /\ ctrl_recv_count = 0
    /\ ctrl_drop_count = 0
    /\ state_sent_count = 0
    /\ vehicle = VehicleInit
    /\ estop_triggered = FALSE
    /\ last_hb_from_ui = NoTime
    /\ physics_last = 0
    /\ ticks = 0
    /\ state_seq \in StartSeqs
    /\ pc_state = "idle"
    /\ snap = NoSnap
    /\ payload = NoPayload
    /\ frames = 0
    /\ wire = NoWire
    /\ cb = [t \in CbThreads |-> Idle]
    /\ pc_api = "idle"
    /\ conn = 0
    /\ created = 0
    /\ link = [c \in 1..MaxConns |-> "new"]
    /\ connection_id = 0
    /\ dc_ready = [l \in Labels |-> FALSE]
    /\ stop_event = FALSE
    /\ reconnect_event = TRUE
    /\ disconnected_event = FALSE
    /\ connected_event = FALSE
    /\ connection_alive = FALSE
    /\ pc_conn = "top"
    /\ pc_hb = "idle"
    /\ hb_wire = 0
    /\ pc_stat = "idle"
    /\ stat_recv = 0
    /\ stat_drop = 0

\* The session: the connection loop, the session callbacks on one callback
\* thread, and the state loop publishing over whatever connection is up.
NextSession ==
    \/ ConnWake
    \/ ConnInstall
    \/ ConnConnect
    \/ ConnConnected
    \/ ConnTimeout
    \/ ConnSetAlive
    \/ ConnDisconnected
    \/ ConnFinally
    \/ ConnFinallyRest
    \/ \E ref \in 1..MaxConns : \E msg \in OfferMsgs(ref) : OnSetOffer(1, ref, msg)
    \/ SetOffer(1)
    \/ \E ref \in 1..MaxConns : \E msg \in NotifyMsgs(ref) : OnNotify(1, ref, msg)
    \/ Notify(1)
    \/ \E ref \in 1..MaxConns, label \in Labels : OnDataChannel(1, ref, label)
    \/ DataChannel(1)
    \/ \E ref \in 1..MaxConns : OnDisconnect(1, ref)
    \/ Disconnect(1)
    \/ StateBegin
    \/ StateCompose
    \/ StateSend

SpecSession == InitSession /\ [][NextSession]_vars

\* C7: the seq of each composed state frame is the previous frame's seq plus
\* one modulo 2^31 over the whole run: no step of the connection loop or of
\* a callback (disconnect, connect timeout, reconnect) changes the counter,
\* every composed frame takes a new seq, and the frame handed to the
\* transport is the one whose seq was assigned last.
C7_StateSeq ==
    [][/\ state_seq' # state_seq
              => /\ state_seq' = (IF state_seq = SEQ_MAX THEN 0 ELSE state_seq + 1)
                 /\ frames' = frames + 1
                 /\ payload'.seq = state_seq'
       /\ frames' # frames => state_seq' # state_seq
       /\ wire' # wire => wire'.seq = state_seq]_vars

\* The counter has wrapped across a reconnect: the frame composed before
\* the wrap went out on the first connection, the next one, with seq 0, on
\* the second.
C7_Witness ==
    /\ frames = 2
    /\ state_seq = 0
    /\ state_sent_count = 2
    /\ wire = [conn |-> 2, seq |-> 0]
    /\ link[1] = "closed"

----------------------------------------------------------------------------
(* Claims of the second round: staleness, the session, stop, estop and the *)
(* status policy.                                                          *)

\* command ages probed beside the ones the physics loop meets, in growing
\* order: inside the hold window, at its end, inside the damping window, at
\* its end, beyond
ProbeAges == <<0, 200, 201, 700, 1200, 1201, 3100>>

C12_SendOnlyOnReady ==
    wire.conn # 0 => link[wire.conn] # "new"

\* callback thread t finishes a callback that was fired for a connection
\* which is not the active one as the callback takes effect
StaleCallbackEnds(t) ==
    /\ cb[t] # Idle
    /\ cb'[t] = Idle
    /\ cb[t].ref # conn

\* C13: a callback fired for a connection that is not the active connection
\* at the moment it takes effect changes nothing: not connection_id, the
\* channel-ready map, the connected/disconnected/alive signals, the command
\* slot or the vehicle.
C13_StaleCallbackChangesNothing ==
    [][\A t \in CbThreads :
           StaleCallbackEnds(t)
               => UNCHANGED <<connection_id, dc_ready, connected_event,
                              disconnected_event, connection_alive, last_ctrl,
                              vehicle>>]_vars

----------------------------------------------------------------------------
(* Reconnecting: the connection loop and the session callbacks, with the   *)
(* loop always taking its next step (its waits return once their event is  *)
(* set or, for the connect wait, after 10 s; its sleeps end) and a         *)
(* disconnect callback that passed the identity check running to its end.  *)

NextReconnect ==
    \/ ConnWake
    \/ ConnInstall
    \/ ConnConnect
    \/ ConnConnected
    \/ ConnTimeout
    \/ ConnSetAlive
    \/ ConnDisconnected
    \/ ConnFinally
    \/ ConnFinallyRest
    \/ \E ref \in 1..MaxConns : \E msg \in OfferMsgs(ref) : OnSetOffer(1, ref, msg)
    \/ SetOffer(1)
    \/ \E ref \in 1..MaxConns : \E msg \in NotifyMsgs(ref) : OnNotify(1, ref, msg)
    \/ Notify(1)
    \/ \E ref \in 1..MaxConns, label \in Labels : OnDataChannel(1, ref, label)
    \/ DataChannel(1)
    \/ \E ref \in 1..MaxConns : OnDisconnect(1, ref)
    \/ Disconnect(1)

SpecReconnect ==
    /\ InitSession
    /\ [][NextReconnect]_vars
    /\ WF_vars(ConnWake)
    /\ WF_vars(ConnInstall)
    /\ WF_vars(ConnConnect)
    /\ WF_vars(ConnConnected \/ ConnTimeout)
    /\ WF_vars(ConnSetAlive)
    /\ WF_vars(ConnDisconnected)
    /\ WF_vars(ConnFinally)
    /\ WF_vars(ConnFinallyRest)
    /\ WF_vars(Disconnect(1))

\* connection n is the last one created and it has ended for the loop: its
\* disconnect was reported (the callback passed the identity check, or the
\* disconnected signal is set), or the loop is in its finally block after a
\* connect timeout or an exception
ConnectionEnded(n) ==
    /\ created = n
    /\ \/ cb[1].kind = "disconnect" /\ cb[1].ref = n
       \/ disconnected_event
       \/ pc_conn = "finally"

\* C14: with stop() never called, whenever the active connection reports a
\* disconnect, the connect attempt times out or the loop body raises, the
\* connection loop eventually creates a new connection and calls connect()
\* on it (as long as the run may still create one).
C14_Reconnects ==
    \A n \in 1..(MaxConns - 1) :
        ConnectionEnded(n) ~> (created > n /\ link[created] # "new")

\* The loop has reconnected twice: connect() was called on the third
\* connection after the first two ended.
C14_Witness ==
    /\ created = 3
    /\ conn = 3
    /\ link = [c \in 1..MaxConns |-> IF c < 3 THEN "closed" ELSE IF c = 3 THEN "open" ELSE "new"]
    /\ pc_conn = "wait_connected"
    /\ ~disconnected_event

----------------------------------------------------------------------------
(* stop(), called by the process while the connection loop and the session *)
(* callbacks run.                                                          *)

\* stop(): stop_event.set(), connection_alive.clear(), reconnect_event.set(),
\* disconnected_event.set()
StopSignal ==
    /\ pc_api = "idle"
    /\ stop_event' = TRUE
    /\ connection_alive' = FALSE
    /\ reconnect_event' = TRUE
    /\ disconnected_event' = TRUE
    /\ pc_api' = "stop_lock"
    /\ UNCHANGED <<now, advances, loop_vars, ctrl_vars, state_vars, vehicle, estop_triggered,
                   last_hb_from_ui, physics_last, ticks, cb, conn, created, link,
                   connection_id, dc_ready, connected_event, pc_conn>>

\* stop(): the critical section under _conn_lock
StopDisconnect ==
    /\ pc_api = "stop_lock"
    /\ IF conn # 0
       THEN /\ link' = [link EXCEPT ![conn] = "closed"]
            /\ conn' = 0
       ELSE UNCHANGED <<link, conn>>
    /\ pc_api' = "stop_join"
    /\ UNCHANGED <<now, advances, loop_vars, ctrl_vars, state_vars, vehicle, estop_triggered,
                   last_hb_from_ui, physics_last, ticks, cb, created, connection_id,
                   dc_ready, stop_event, reconnect_event, disconnected_event,
                   connected_event, connection_alive, pc_conn>>

\* stop(): the joins, each of which returns when its thread has exited or
\* after 1 s; stop() returns
StopJoin ==
    /\ pc_api = "stop_join"
    /\ pc_api' = "stopped"
    /\ UNCHANGED <<now, advances, loop_vars, ctrl_vars, state_vars, vehicle, estop_triggered,
                   last_hb_from_ui, physics_last, ticks, cb, conn, created, link,
                   connection_id, dc_ready, stop_event, reconnect_event,
                   disconnected_event, connected_event, connection_alive, pc_conn>>

NextStop ==
    \/ NextReconnect
    \/ ConnExit
    \/ StopSignal
    \/ StopDisconnect
    \/ StopJoin

\* every thread keeps running: the connection loop, stop() and a callback
\* that passed its identity check take their next step whenever they can;
\* the transport owes no new callback
SpecStop ==
    /\ InitSession
    /\ [][NextStop]_vars
    /\ WF_vars(ConnWake)
    /\ WF_vars(ConnExit)
    /\ WF_vars(ConnInstall)
    /\ WF_vars(ConnConnect)
    /\ WF_vars(ConnConnected \/ ConnTimeout)
    /\ WF_vars(ConnSetAlive)
    /\ WF_vars(ConnDisconnected)
    /\ WF_vars(ConnFinally)
    /\ WF_vars(ConnFinallyRest)
    /\ WF_vars(StopSignal)
    /\ WF_vars(StopDisconnect)
    /\ WF_vars(StopJoin)
    /\ WF_vars(SetOffer(1))
    /\ WF_vars(Notify(1))
    /\ WF_vars(DataChannel(1))
    /\ WF_vars(Disconnect(1))

\* C15: once stop() has returned, no connection is installed as the active
\* connection or left connected to the transport.
C15_StopIsTerminal ==
    pc_api = "stopped" => (conn = 0 /\ \A c \in 1..MaxConns : link[c] # "open")

\* C16: after stop() is called the loops eventually observe the stop signal
\* and exit; in particular the connection loop is never left blocked waiting
\* for a connected or disconnected signal.  Stated of the connection loop.
C16_LoopsExit ==
    stop_event ~> (pc_conn = "done")

----------------------------------------------------------------------------
(* trigger_estop called again, checked under Spec. *)

\* the steps of a trigger_estop call: its critical section, then its beacon
IsTriggerEstop == pc_api = "idle" /\ pc_api' = "beacon"

IsTriggerEstopBeacon == pc_api = "beacon" /\ pc_api' = "idle"

\* what one call leaves in the integrator: the flag set, vx and wz zero
EstopApplied(v) == v.estop_active /\ v.vx = 0 /\ v.wz = 0

\* C17: trigger_estop() is idempotent: a call leaves the estop flag set, vx
\* and wz zero, the pose as it was and the beacon true, and a call made on a
\* state that one call has left changes neither the vehicle state (estop
\* flag, vx, wz, pose) nor the beacon.
C17_TriggerEstopIdempotent ==
    [][/\ IsTriggerEstop =>
            /\ EstopApplied(vehicle')
            /\ <<vehicle'.x, vehicle'.y, vehicle'.z, vehicle'.yaw>>
                   = <<vehicle.x, vehicle.y, vehicle.z, vehicle.yaw>>
            /\ estop_triggered' = estop_triggered
            /\ (EstopApplied(vehicle) => vehicle' = vehicle)
       /\ IsTriggerEstopBeacon =>
            /\ estop_triggered'
            /\ vehicle' = vehicle
            /\ (estop_triggered => estop_triggered' = estop_triggered)]_vars

\* a second call is past its critical section: the beacon of an earlier call
\* is set, the vehicle had moved before the first call
C17_Witness ==
    /\ pc_api = "beacon"
    /\ estop_triggered
    /\ EstopApplied(vehicle)
    /\ vehicle.z # 0

----------------------------------------------------------------------------
(* The beacon over the life of the process: estop from the operator and    *)
(* from the process, clear_estop, the state loop, and the connection loop  *)
(* dropping and re-establishing the session.                               *)

NextBeacon ==
    \/ NextReconnect
    \/ \E ref \in 1..MaxConns, label \in Labels : OnMessage(1, ref, label, [type |-> "estop"])
    \/ HandleEstop(1)
    \/ HandleEstopBeacon(1)
    \/ TriggerEstop
    \/ TriggerEstopBeacon
    \/ ClearEstop
    \/ StateBegin
    \/ StateCompose
    \/ StateSend

SpecBeacon == InitSession /\ [][NextBeacon]_vars

\* _build_state_payload returns: the frame is composed
IsStateCompose == pc_state = "compose" /\ pc_state' = "send"

\* the integrator's estop flag goes from set to clear
IsClearEstop == vehicle.estop_active /\ ~vehicle'.estop_active

\* C18: the sticky beacon is monotone: once true it stays true, through
\* clear_estop() and through reconnects, so every frame composed afterwards
\* carries status.estop == true; clear_estop() changes the integrator's
\* estop flag and nothing else.
C18_BeaconSticky ==
    [][/\ estop_triggered => estop_triggered'
       /\ (IsStateCompose /\ estop_triggered) => payload'.estop
       /\ IsClearEstop =>
            /\ vehicle' = [vehicle EXCEPT !.estop_active = FALSE]
            /\ UNCHANGED <<now, advances, loop_vars, ctrl_vars, state_vars, session_vars,
                           estop_triggered, last_hb_from_ui, physics_last, ticks,
                           cb, pc_api>>]_vars

\* a frame composed on a later connection from a snapshot taken after
\* clear_estop carries the beacon
C18_Witness ==
    /\ pc_state = "send"
    /\ payload.estop
    /\ ~snap.estop
    /\ ~vehicle.estop_active
    /\ created >= 2
    /\ link[1] = "closed"

----------------------------------------------------------------------------
(* The status of a frame against the operator heartbeat and the command    *)
(* age, checked under SpecStatus.                                          *)

\* a heartbeat has been received and the last one is more than 3 s old
HeartbeatSilent == last_hb_from_ui # NoTime /\ wall - last_hb_from_ui > HB_LOST_SEC

\* C19: once a heartbeat has been received and none has arrived for more
\* than 3 s, with fresh commands (ctrl_age <= 0.4 s) and no estop, every
\* frame composed has status.ok == false and status.msg == "ui heartbeat
\* lost", until a new heartbeat arrives.
C19_HeartbeatLost ==
    [][(/\ IsStateCompose
        /\ HeartbeatSilent
        /\ ~snap.estop
        /\ snap.ctrl_age <= STALE_SEC)
          => (payload'.ok = FALSE /\ payload'.msg = "ui heartbeat lost")]_vars

\* a frame has been composed more than 3 s after the last heartbeat from a
\* snapshot with a fresh command and no estop
C19_Witness ==
    /\ pc_state = "send"
    /\ HeartbeatSilent
    /\ ~snap.estop
    /\ snap.ctrl_age <= STALE_SEC
    /\ payload.msg = "ui heartbeat lost"

\* C20: for a frame without estop the status rules apply in order, first
\* match wins: "waiting ctrl" (ok false) when no command was ever received,
\* else "ctrl timeout" (ok false) when ctrl_age > CTRL_HOLD + CTRL_DAMP, else
\* "ctrl stale" (ok true) when ctrl_age > 0.4 s; "ui heartbeat lost" is
\* reported only when none of these matches, so a frame with ctrl_age in
\* (0.4, 1.2] s and a heartbeat older than 3 s has ok true and "ctrl stale".
C20_StatusOrdering ==
    [][(IsStateCompose /\ ~snap.estop) =>
          IF snap.ctrl_age = INF
          THEN payload'.ok = FALSE /\ payload'.msg = "waiting ctrl"
          ELSE IF snap.ctrl_age > CTRL_HOLD_SEC + CTRL_DAMP_SEC
          THEN payload'.ok = FALSE /\ payload'.msg = "ctrl timeout"
          ELSE IF snap.ctrl_age > STALE_SEC
          THEN payload'.ok = TRUE /\ payload'.msg = "ctrl stale"
          ELSE payload'.msg \in {"", "ui heartbeat lost"}]_vars

----------------------------------------------------------------------------
(* Inbound frames of every shape: what the transport may hand to           *)
(* _on_message on the active connection, well-formed or not, on one        *)
(* callback thread.                                                        *)

\* cmd objects with a NaN, with no key at all (also a frame without cmd, or
\* with "cmd": null), and with values float() raises on
OddCmds ==
    { [throttle |-> NaN, steer |-> 500, brake |-> 0, mode |-> "arcade", t |-> NoTime],
      [throttle |-> Missing, steer |-> Missing, brake |-> Missing, mode |-> "arcade",
       t |-> NoTime],
      [throttle |-> NonNumeric, steer |-> 0, brake |-> 0, mode |-> "arcade", t |-> NoTime],
      [throttle |-> 0, steer |-> 0, brake |-> NonNumeric, mode |-> "arcade", t |-> NoTime] }

\* ctrl frames with an int seq that carry them, and one whose cmd is not an
\* object
OddCtrlMsgs ==
    { [type |-> "ctrl", int_seq |-> TRUE, seq |-> s, cmd_obj |-> TRUE, cmd |-> c] :
          s \in 0..MaxSeq, c \in OddCmds }
        \cup {[type |-> "ctrl", int_seq |-> TRUE, seq |-> MaxSeq, cmd_obj |-> FALSE,
               cmd |-> CmdOf(0)]}

\* bytes that are not UTF-8, text that is not JSON, a JSON value that is not
\* an object: type names what json.loads(data.decode("utf-8")) makes of them
Undecodable == {[type |-> "not_utf8"], [type |-> "not_json"], [type |-> "not_object"]}

ParseMsgs == Msgs \cup OddCtrlMsgs \cup Undecodable

NextParse ==
    \/ \E d \in AdvanceSet : Advance(d)
    \/ \E ref \in 1..MaxConns, label \in Labels, msg \in ParseMsgs :
           OnMessage(1, ref, label, msg)
    \/ CallbackRaised(1)
    \/ HandleCtrl(1)
    \/ HandleHeartbeat(1)
    \/ HandleEstop(1)
    \/ HandleEstopBeacon(1)

SpecParse == Init /\ [][NextParse]_vars

\* C21: every command in the latest-command slot has throttle in [-1, 1],
\* steer in [-1, 1] and brake in [0, 1], whatever values the ctrl frame
\* carried, and a missing numeric field is stored as 0.
C21_SlotInRange ==
    last_ctrl # None =>
        /\ last_ctrl.throttle \in -Scale..Scale
        /\ last_ctrl.steer \in -Scale..Scale
        /\ last_ctrl.brake \in 0..Scale

\* C22: a ctrl frame whose seq is absent, is not an integer or is a negative
\* integer is dropped: the latest-command slot, the accepted seq and the
\* received count are as they were after it.  Checked under SpecIntake.
C22_BadSeqDropped ==
    [][/\ \A t \in CbThreads, ref \in 1..MaxConns, label \in Labels, msg \in CtrlMsgs :
              (~msg.int_seq /\ OnMessage(t, ref, label, msg))
                  => UNCHANGED <<cb, last_ctrl, ctrl_recv_count>>
       /\ \A t \in CbThreads :
              (CtrlCommits(t) /\ cb[t].snapshot.seq < 0)
                  => UNCHANGED <<last_ctrl, ctrl_recv_count>>]_vars

\* a frame that fails parsing or schema: undecodable bytes or text, a JSON
\* value that is not an object, a ctrl frame whose cmd is not an object or
\* whose throttle, steer or brake is not numeric, an unknown type
Malformed(msg) ==
    \/ msg \in Undecodable
    \/ msg.type = "other"
    \/ msg.type = "ctrl" /\ CmdRaises(msg)

\* C23: every inbound frame that fails parsing or schema is discarded: the
\* message handler returns normally, without raising into the transport
\* callback, and the command slot, the vehicle state, the heartbeat timestamp
\* and the estop flags are as they were.  Checked under SpecParse.
C23_MalformedDiscarded ==
    [][\A ref \in 1..MaxConns, label \in Labels, msg \in ParseMsgs :
           (Malformed(msg) /\ OnMessage(1, ref, label, msg))
               => UNCHANGED <<cb, last_ctrl, vehicle, last_hb_from_ui, estop_triggered>>]_vars

\* C24: routing: a frame of type hb updates the operator heartbeat timestamp
\* and a frame of type estop triggers the integrator estop and sets the
\* sticky beacon, whatever label it arrives on; a frame of type ctrl is fed
\* to command intake only when it arrives on the ctrl label and otherwise
\* changes nothing.  Checked under SpecParse.
C24_Routing ==
    [][/\ \A label \in Labels, msg \in Msgs :
              OnMessage(1, conn, label, msg) =>
                  IF msg.type = "hb" THEN cb'[1].kind = "hb"
                  ELSE IF msg.type = "estop" THEN cb'[1].kind = "estop"
                  ELSE IF msg.type = "ctrl" /\ label # ctrl_label THEN UNCHANGED vars
                  ELSE IF msg.type = "ctrl" /\ msg.int_seq
                  THEN cb'[1].kind = "ctrl" /\ cb'[1].snapshot.seq = msg.seq
                  ELSE UNCHANGED vars
       /\ (cb[1].kind = "hb" /\ cb'[1] = Idle) => last_hb_from_ui' = wall
       /\ (cb[1].kind = "estop" /\ cb'[1] # cb[1]) => EstopApplied(vehicle')
       /\ (cb[1].kind = "estop_beacon" /\ cb'[1] = Idle) => estop_triggered']_vars

\* a command has been taken in, a heartbeat recorded and an estop frame has
\* stopped the integrator, its handler about to set the beacon
C24_Witness ==
    /\ cb[1].kind = "estop_beacon"
    /\ vehicle.estop_active
    /\ last_hb_from_ui # NoTime
    /\ last_ctrl # None

----------------------------------------------------------------------------
(* The connections of a run, checked under SpecStop: disconnects, connect  *)
(* timeouts, connect errors, reconnects and stop().                        *)

\* the connections that have had connect() called and no disconnect() since
ActiveConns == { c \in 1..MaxConns : link[c] \in {"open", "dropped"} }

\* C25: at most one connection is active at any time: in every reachable
\* state at most one connection has had connect() called without a later
\* disconnect().
C25_OneActiveConnection == Cardinality(ActiveConns) <= 1

\* a third connection is connected after the first two were disconnected
C25_Witness ==
    /\ created = 3
    /\ link[1] = "closed"
    /\ link[2] = "closed"
    /\ link[3] = "open"
    /\ pc_conn = "wait_disconnected"

----------------------------------------------------------------------------
(* The connection-alive signal, checked under SpecReconnect. *)

\* _connection_alive.set() takes effect
AliveIsSet == ~connection_alive /\ connection_alive'

\* C26: the session is marked Connected (the connection-alive signal is set)
\* only after the connection.created notify whose connection_id equals the
\* one assigned in the offer has arrived and each required data channel
\* (ctrl and state) has reported opened at least once on that connection.
C26_AliveOnlyWhenReady ==
    [][AliveIsSet => (/\ connected_event
                      /\ dc_ready[ctrl_label]
                      /\ dc_ready[state_label])]_vars

----------------------------------------------------------------------------
(* The heartbeat loop, over the connection loop, the session callbacks and *)
(* stop().  The loop's 1 s period is left out: a heartbeat may be due at   *)
(* any iteration.                                                          *)

\* _heartbeat_loop: the while test passes and a heartbeat is due
HeartbeatBegin ==
    /\ pc_hb = "idle"
    /\ ~stop_event
    /\ pc_hb' = "check"
    /\ UNCHANGED <<now, advances, ctrl_vars, state_vars, session_vars, vehicle,
                   estop_triggered, last_hb_from_ui, physics_last, ticks, cb, pc_api,
                   hb_wire, pc_stat, stat_recv, stat_drop>>

\* _send_heartbeat: the test of _connection_alive
HeartbeatCheck ==
    /\ pc_hb = "check"
    /\ pc_hb' = IF connection_alive THEN "send" ELSE "idle"
    /\ UNCHANGED <<now, advances, ctrl_vars, state_vars, session_vars, vehicle,
                   estop_triggered, last_hb_from_ui, physics_last, ticks, cb, pc_api,
                   hb_wire, pc_stat, stat_recv, stat_drop>>

\* _send_heartbeat: the connection read under _conn_lock, then
\* send_data_channel on the state label
HeartbeatSend ==
    /\ pc_hb = "send"
    /\ hb_wire' = IF conn = 0 THEN hb_wire ELSE conn
    /\ pc_hb' = "idle"
    /\ UNCHANGED <<now, advances, ctrl_vars, state_vars, session_vars, vehicle,
                   estop_triggered, last_hb_from_ui, physics_last, ticks, cb, pc_api,
                   pc_stat, stat_recv, stat_drop>>

NextHeartbeat ==
    \/ NextStop
    \/ HeartbeatBegin
    \/ HeartbeatCheck
    \/ HeartbeatSend

SpecHeartbeat == InitSession /\ [][NextHeartbeat]_vars

\* _send_heartbeat hands a heartbeat to send_data_channel
HeartbeatIsSent == pc_hb = "send" /\ pc_hb' = "idle" /\ conn # 0

\* C27: a server heartbeat is sent on the state channel only while the
\* session is Connected: only on a connection that has received its matching
\* notify and whose state channel has reported opened; none is sent while
\* Connecting, Disconnected or after stop().
C27_HeartbeatOnlyWhenConnected ==
    [][HeartbeatIsSent => (/\ ~stop_event
                           /\ link[conn] = "open"
                           /\ connected_event
                           /\ connection_id = conn
                           /\ dc_ready[state_label])]_vars

----------------------------------------------------------------------------
(* The vehicle lock, checked under SpecStatus: the physics loop, the state *)
(* loop and the estop handler.                                             *)

\* _build_state_payload leaves its critical section under _vehicle_lock
IsSnapshot == pc_state = "idle" /\ pc_state' = "compose"

----------------------------------------------------------------------------
(* The stats loop against command intake.  _handle_ctrl changes the        *)
(* counters under _ctrl_lock, the stats loop reads and resets them under   *)
(* _stats_lock: the two critical sections do not exclude each other, so    *)
(* the loop's reads and its resets are separate steps.                     *)

\* _stat_loop: recv, drop and sent are read
StatRead ==
    /\ pc_stat = "idle"
    /\ ~stop_event
    /\ stat_recv' = ctrl_recv_count
    /\ stat_drop' = ctrl_drop_count
    /\ pc_stat' = "reset"
    /\ UNCHANGED <<now, advances, ctrl_vars, state_vars, session_vars, vehicle,
                   estop_triggered, last_hb_from_ui, physics_last, ticks, cb, pc_api,
                   pc_hb, hb_wire>>

\* _stat_loop: the counters are set to 0 and the counts read are logged
StatReset ==
    /\ pc_stat = "reset"
    /\ ctrl_recv_count' = 0
    /\ ctrl_drop_count' = 0
    /\ state_sent_count' = 0
    /\ pc_stat' = "idle"
    /\ UNCHANGED <<now, advances, last_ctrl, last_ctrl_latency_ms, has_latency,
                   state_seq, pc_state, snap, payload, frames, wire, session_vars,
                   vehicle, estop_triggered, last_hb_from_ui, physics_last, ticks, cb,
                   pc_api, pc_hb, hb_wire, stat_recv, stat_drop>>

NextStats ==
    \/ \E d \in AdvanceSet : Advance(d)
    \/ \E t \in CbThreads, label \in Labels, msg \in CtrlMsgs : OnMessage(t, conn, label, msg)
    \/ \E t \in CbThreads : HandleCtrl(t)
    \/ StatRead
    \/ StatReset

SpecStats == Init /\ [][NextStats]_vars

\* the stats loop emits: its reset is done
StatEmits == pc_stat = "reset" /\ pc_stat' = "idle"

\* C29: no count is lost or counted twice: over any interleaving of command
\* intake with the stats loop's read-and-reset, the received counts of all
\* emissions plus the current counter equal the number of accepted commands,
\* and likewise for dropped commands; so an emission takes out of each
\* counter exactly what it reports.
C29_NoCountLost ==
    [][StatEmits => (/\ ctrl_recv_count' = ctrl_recv_count - stat_recv
                     /\ ctrl_drop_count' = ctrl_drop_count - stat_drop)]_vars

----------------------------------------------------------------------------
(* The alive signal against _on_disconnect, checked under SpecReconnect,   *)
(* where only _on_disconnect sets disconnected_event and only the install  *)
(* of the next connection clears it.                                       *)

\* C30: the connection-alive signal is never set for a connection whose
\* disconnect has already been processed: for every interleaving of
\* _on_disconnect with the connection loop between the connected wait
\* returning and the alive signal being set, no state in which the active
\* connection has reported disconnect has the alive signal set.
C30_AliveNotAfterDisconnect ==
    ~(connection_alive /\ disconnected_event)

====
